---- MODULE Spec2Model ----
(***************************************************************************)
(* Extract3.py: the events table of one fMRI run.  A recording is a pair   *)
(* of sequences (times, angles); data_to_event cuts it into events         *)
(* (condition, onset, duration, angle) where the smoothed rate of |angle|  *)
(* rises above THRESHOLD_SPEED; get_passive_data stitches the trials of    *)
(* the PASSIVE condition into one timeline; append_to_txt writes the       *)
(* events of one condition and the main script chains the conditions.     *)
(*                                                                         *)
(* Numbers.  Times are integers in ticks of 10^-(DECIMALS+1) seconds, one  *)
(* decimal more than the program rounds to, so that rounding to DECIMALS   *)
(* places is a real operation.  Angles are whole degrees.  Rates are       *)
(* integers in 1/RateScale degrees per second (quotients are truncated),  *)
(* or one of the IEEE values NaN, +inf, -inf that numpy produces when two  *)
(* samples carry the same timestamp.                                       *)
(***************************************************************************)
EXTENDS Integers, Sequences, FiniteSets, TLC

VARIABLES
    pc,          \* where the program is
    err,         \* the exception that ended the computation, or "none"
    condition,   \* data_to_event / append_to_txt: the condition label
    times,       \* data_to_event: the times argument
    angles,      \* data_to_event: the angles argument
    d_angles,    \* data_to_event: the smoothed rate series
    container,   \* data_to_event: the events emitted so far
    onset,       \* data_to_event: onset of the open event
    prev_angle,  \* data_to_event: angle of the previous sample
    at_zero,     \* data_to_event: was the previous sample below threshold
    i,           \* data_to_event: index of the next sample (1-based)
    parameters,  \* get_passive_data: the tokens of the subject's index file
    tok,         \* get_passive_data: index of the next token (1-based)
    more_bound,  \* get_passive_data: are more_times, more_angles bound yet
    more_times,  \* get_passive_data: times of the trial loaded last
    more_angles, \* get_passive_data: angles of the trial loaded last
    local_start_time, \* get_passive_data: its own start_time, rebound at line 113
    start_time,  \* __main__ / append_to_txt: start time of the condition
    entry,       \* __main__: index of the next entry of os.listdir()
    subject,     \* __main__: the subject being processed
    run,         \* __main__: index of the next run of the subject
    ordcond,     \* __main__: the conditions in their order for this run
    ci,          \* __main__: index of the next condition in ordcond
    files,       \* the event tables on disk, by output file
    group        \* get_ordered_conditions: the rank of every condition in the run

segvars == <<d_angles, container, onset, prev_angle, at_zero, i>>
stitchvars == <<parameters, tok, more_bound, more_times, more_angles, local_start_time>>
mainvars == <<start_time, entry, subject, run, ordcond, ci, files, group>>

vars == <<pc, err, condition, times, angles, segvars, stitchvars, mainvars>>

----------------------------------------------------------------------------
(* Bounds of the model *)

MaxLen == 3        \* longest recording
MaxTime == 4       \* timestamps are 0 .. MaxTime steps of 0.25008 s
MaxTrials == 2     \* most tokens in an index file
MaxRank == 4       \* ranks of the conditions of a run are 1 .. MaxRank

----------------------------------------------------------------------------
(* Program constants *)

DECIMALS == 4
THRESHOLD_SPEED == 10
SMOOTHNESS == 2
conditions == <<"LONG", "SHORT", "PASSIVE">>

TicksPerSecond == 10 ^ (DECIMALS + 1)
Grain == TicksPerSecond \div (10 ^ DECIMALS)   \* ticks in one unit of the last kept decimal
THRESHOLD_DURATION == TicksPerSecond \div 2    \* 0.5 s

\* Resolution of the rate series: rates are kept in 1/RateScale degree per second.
RateScale == 100

----------------------------------------------------------------------------
(* Input values *)

\* Timestamps: multiples of 0.25008 s, off the grid the program rounds to.
TimeVals == {k * 25008 : k \in 0..MaxTime}
AngleVals == {-30, 0, 18}

NonDecreasing(s) == \A j \in 1..(Len(s) - 1) : s[j] <= s[j + 1]

SeqsUpTo(S, n) == UNION {[1..m -> S] : m \in 0..n}

\* The recordings a reader can deliver: equal lengths, time non-decreasing.
Recordings ==
    {r \in UNION {[1..m -> TimeVals] \X [1..m -> AngleVals] : m \in 1..MaxLen} :
        NonDecreasing(r[1])}

\* The malformed series data_to_event can be called with: no sample at all,
\* or times and angles of different lengths.
Malformed ==
    {r \in SeqsUpTo(TimeVals, MaxLen) \X SeqsUpTo(AngleVals, MaxLen) :
        /\ NonDecreasing(r[1])
        /\ Len(r[1]) = 0 \/ Len(r[1]) # Len(r[2])}

----------------------------------------------------------------------------
(* Arithmetic *)

Abs(x) == IF x < 0 THEN -x ELSE x

\* Quotient truncated toward zero (b > 0).
Quot(a, b) == IF a >= 0 THEN a \div b ELSE -((-a) \div b)

\* A rounding that always goes up to the next multiple of Grain.
round_up(x) == ((x + Grain - 1) \div Grain) * Grain

\* round(x, DECIMALS) of a numpy float: to the nearest multiple of Grain,
\* a tie going to the even multiple.
round(x) ==
    LET q == x \div Grain
        r == x % Grain
    IN  IF 2 * r < Grain THEN q * Grain
        ELSE IF 2 * r > Grain THEN (q + 1) * Grain
        ELSE IF q % 2 = 0 THEN q * Grain ELSE (q + 1) * Grain

\* IEEE values of a rate.
Num(v) == [kind |-> "num", v |-> v]
NaN == [kind |-> "nan", v |-> 0]
Inf(sign) == [kind |-> "inf", v |-> sign]

\* num / den in floating point, the result in rate units when num is in
\* degrees * RateScale * TicksPerSecond and den in ticks.
FDiv(num, den) ==
    IF den # 0 THEN Num(Quot(num, den))
    ELSE IF num = 0 THEN NaN
    ELSE Inf(IF num > 0 THEN 1 ELSE -1)

AbsGt(d, thr) == \/ d.kind = "inf"
                 \/ d.kind = "num" /\ Abs(d.v) > thr * RateScale
AbsLt(d, thr) == d.kind = "num" /\ Abs(d.v) < thr * RateScale

----------------------------------------------------------------------------
(* Signal preprocessing: np.gradient and scipy.ndimage.gaussian_filter *)

\* np.abs(angles)
abs_angles(a) == [j \in 1..Len(a) |-> Abs(a[j])]

\* One-sided slope of f between samples j and j+1.
Slope(f, x, j) ==
    FDiv((f[j + 1] - f[j]) * RateScale * TicksPerSecond, x[j + 1] - x[j])

\* np.gradient(f, x), edge_order 1, for Len(f) >= 2 and non-decreasing x.
\* Both ends take the one-sided difference.  When all gaps are equal numpy
\* reduces to the scalar spacing h and the inside is (f[j+1] - f[j-1]) / 2h;
\* otherwise the inside is the second-order difference for uneven spacing,
\* (hs*sd + hd*ss) / (hs + hd), whose coefficients are infinite when either
\* gap is zero, the sum then being NaN.
Uniform(x) == \A j \in 1..(Len(x) - 1) : x[j + 1] - x[j] = x[2] - x[1]

gradient(f, x) ==
    [j \in 1..Len(f) |->
        IF j = 1 THEN Slope(f, x, 1)
        ELSE IF j = Len(f) THEN Slope(f, x, Len(f) - 1)
        ELSE LET hs == x[j] - x[j - 1]
                 hd == x[j + 1] - x[j]
             IN  IF Uniform(x)
                 THEN FDiv((f[j + 1] - f[j - 1]) * RateScale * TicksPerSecond, 2 * hs)
                 ELSE IF hs = 0 \/ hd = 0 THEN NaN
                 ELSE Num(Quot(hs * Slope(f, x, j).v + hd * Slope(f, x, j - 1).v,
                               hs + hd))]

\* Gaussian kernel of scipy for sigma = SMOOTHNESS = 2, truncate = 4.0:
\* radius int(4.0 * 2 + 0.5) = 8, weights exp(-k^2 / 8) / sum, times 10^5.
KernelRadius == 4 * SMOOTHNESS
KernelWeights == <<19947, 17604, 12099, 6476, 2700, 876, 222, 44, 7>>
Kernel(k) == KernelWeights[Abs(k) + 1]

RECURSIVE SumOver(_, _)
SumOver(f, S) ==
    IF S = {} THEN 0
    ELSE LET k == CHOOSE k \in S : TRUE IN f[k] + SumOver(f, S \ {k})

KernelSum == SumOver([k \in -KernelRadius..KernelRadius |-> Kernel(k)],
                     -KernelRadius..KernelRadius)

\* mode = 'reflect': the input is extended by mirroring about its edges
\* (d c b a | a b c d | d c b a); p is any integer position, 1-based.
Reflect(p, n) ==
    LET m == (p - 1) % (2 * n)
    IN  IF m < n THEN m + 1 ELSE 2 * n - m

gaussian_filter(g) ==
    [j \in 1..Len(g) |->
        LET W == -KernelRadius..KernelRadius
            at(k) == g[Reflect(j + k, Len(g))]
        IN  IF \E k \in W : at(k).kind = "nan" THEN NaN
            ELSE IF /\ \E k \in W : at(k) = Inf(1)
                    /\ \E k \in W : at(k) = Inf(-1) THEN NaN
            ELSE IF \E k \in W : at(k).kind = "inf"
                 THEN (CHOOSE v \in {Inf(1), Inf(-1)} : \E k \in W : at(k) = v)
            ELSE Num(Quot(SumOver([k \in W |-> Kernel(k) * at(k).v], W), KernelSum))]

----------------------------------------------------------------------------
(* data_to_event *)

\* An event record that carries the time it was closed at as its onset.
event_closing_time(cond, on, duration, angle) ==
    <<cond, round(on + duration), round(duration), angle>>

\* An event record whose duration is left as computed.
event_raw_duration(cond, on, duration, angle) == <<cond, round(on), duration, angle>>

\* An event record: [condition, round(onset), round(duration), prev_angle].
event(cond, on, duration, angle) == <<cond, round(on), round(duration), angle>>

\* The boundary test without the hysteresis flag.
boundary_noflag(d_angle, duration, az, idx, n) ==
    \/ /\ AbsGt(d_angle, THRESHOLD_SPEED)
       /\ duration > THRESHOLD_DURATION
    \/ idx = n

\* The boundary test without the speed threshold.
boundary_nospeed(d_angle, duration, az, idx, n) ==
    \/ /\ duration > THRESHOLD_DURATION
       /\ az
    \/ idx = n

\* The boundary test without the minimum duration.
boundary_noduration(d_angle, duration, az, idx, n) ==
    \/ /\ AbsGt(d_angle, THRESHOLD_SPEED)
       /\ az
    \/ idx = n

\* The test of lines 135-137 at sample idx of n.
boundary(d_angle, duration, az, idx, n) ==
    \/ /\ AbsGt(d_angle, THRESHOLD_SPEED)
       /\ duration > THRESHOLD_DURATION
       /\ az
    \/ idx = n

\* A length test that only rejects coordinates shorter than the signal.
gradient_error_short(f, x) ==
    IF Len(f) < 2 THEN "IndexError"
    ELSE IF Len(x) < Len(f) THEN "ValueError"
    ELSE "none"

\* The exception np.gradient(f, x) raises, or "none": ValueError when x does
\* not match f in length; IndexError from diffx[0] when np.diff(x) is empty,
\* that is with fewer than two samples.
gradient_error(f, x) ==
    IF Len(x) # Len(f) THEN "ValueError"
    ELSE IF Len(x) < 2 THEN "IndexError"
    ELSE "none"

\* The duration taken from the start of the recording's clock.
duration_from_zero(time, on) == time

\* duration of the open event at a sample (line 134).
duration_of(time, on) == time - on

\* Line 124.
Preprocess ==
    /\ pc = "data_to_event"
    /\ IF gradient_error(abs_angles(angles), times) # "none"
       THEN /\ pc' = "raised"
            /\ err' = gradient_error(abs_angles(angles), times)
            /\ UNCHANGED d_angles
       ELSE /\ pc' = "segment"
            /\ d_angles' = gaussian_filter(gradient(abs_angles(angles), times))
            /\ UNCHANGED err
    /\ UNCHANGED <<condition, times, angles, container, onset, prev_angle, at_zero, i,
                   stitchvars, mainvars>>

\* Lines 129-132.
SegInit ==
    /\ pc = "segment"
    /\ container' = <<>>
    /\ onset' = times[1]
    /\ prev_angle' = angles[1]
    /\ at_zero' = AbsLt(d_angles[1], THRESHOLD_SPEED)
    /\ i' = 1
    /\ pc' = "loop"
    /\ UNCHANGED <<err, condition, times, angles, d_angles, stitchvars, mainvars>>

\* Lines 133-147: one iteration of the loop.
SegStep ==
    /\ pc = "loop"
    /\ i <= Len(times)
    /\ LET duration == duration_of(times[i], onset)
           emit == boundary(d_angles[i], duration, at_zero, i, Len(times))
       IN  /\ container' = IF emit
                           THEN Append(container, event(condition, onset, duration, prev_angle))
                           ELSE container
           /\ onset' = IF emit THEN times[i] ELSE onset
    /\ at_zero' = AbsLt(d_angles[i], THRESHOLD_SPEED)
    /\ prev_angle' = angles[i]
    /\ i' = i + 1
    /\ UNCHANGED <<pc, err, condition, times, angles, d_angles, stitchvars, mainvars>>

\* Line 159.
SegReturn ==
    /\ pc = "loop"
    /\ i > Len(times)
    /\ pc' = "returned"
    /\ UNCHANGED <<err, condition, times, angles, segvars, stitchvars, mainvars>>

----------------------------------------------------------------------------
(* data_to_event on every recording a reader can deliver and on every      *)
(* malformed series                                                        *)

NoRate == <<>>

\* Names not bound yet.
SegIdle ==
    /\ d_angles = NoRate
    /\ container = <<>>
    /\ onset = 0
    /\ prev_angle = 0
    /\ at_zero = FALSE
    /\ i = 0

StitchIdle ==
    /\ tok = 0
    /\ more_bound = FALSE
    /\ more_times = <<>>
    /\ more_angles = <<>>
    /\ local_start_time = 0

MainIdle ==
    /\ start_time = 0
    /\ entry = 0
    /\ subject = "none"
    /\ run = 0
    /\ ordcond = <<>>
    /\ ci = 0
    /\ files = <<>>
    /\ group = <<>>

InitSeg ==
    /\ pc = "data_to_event"
    /\ err = "none"
    /\ condition = "LONG"
    /\ \E r \in Recordings \cup Malformed : times = r[1] /\ angles = r[2]
    /\ SegIdle
    /\ parameters = <<>>
    /\ StitchIdle
    /\ MainIdle

NextSeg == Preprocess \/ SegInit \/ SegStep \/ SegReturn

SpecSeg == InitSeg /\ [][NextSeg]_vars

----------------------------------------------------------------------------
(* Properties of data_to_event, under SpecSeg *)

Ended == pc \in {"returned", "raised"}
Last(s) == s[Len(s)]
Onset(e) == e[2]
Duration(e) == e[3]
Angle(e) == e[4]

RECURSIVE SumDurations(_)
SumDurations(c) == IF c = <<>> THEN 0 ELSE Duration(c[1]) + SumDurations(Tail(c))

Quiescent == \A j \in 1..Len(d_angles) : ~AbsGt(d_angles[j], THRESHOLD_SPEED)

\* C1: every call of data_to_event on a series of length n >= 1 runs to its
\* return, the step that processes the last index appends exactly one
\* record, and the returned container holds at least one record.
C1_NonEmpty ==
    [][/\ (pc = "data_to_event" /\ Len(times) >= 1 /\ Len(angles) = Len(times)) =>
              pc' # "raised"
       /\ (pc = "loop" /\ i = Len(times)) => Len(container') = Len(container) + 1
       /\ pc' = "returned" => Len(container') >= 1]_vars

\* C2: a single-sample series times = [t], angles = [a] ends by returning
\* exactly the one record (condition, round(t), 0, a).
C2_SingleSample ==
    (Ended /\ Len(times) = 1 /\ Len(angles) = 1) =>
        /\ pc = "returned"
        /\ container = <<<<condition, round(times[1]), 0, angles[1]>>>>

\* C3 as stated: in the emitted records (rounded onset and duration)
\* onset[j+1] >= onset[j] + duration[j] for every consecutive pair.
C3_NoOverlap ==
    \A j \in 1..(Len(container) - 1) :
        Onset(container[j + 1]) >= Onset(container[j]) + Duration(container[j])

\* C3 amended: in the emitted records onset[j+1] >= onset[j] + duration[j]
\* minus one unit of the rounding (0.0001): consecutive records overlap by at
\* most one rounding unit.
C3_NoOverlapWithinGrain ==
    \A j \in 1..(Len(container) - 1) :
        Onset(container[j + 1]) >= Onset(container[j]) + Duration(container[j]) - Grain

\* A returned container whose first two records overlap by exactly one unit.
C3_Witness ==
    /\ pc = "returned"
    /\ Len(container) >= 2
    /\ Onset(container[2]) = Onset(container[1]) + Duration(container[1]) - Grain

\* C4 as stated: every duration is >= 0, the onsets are strictly increasing
\* and the emitted durations sum to at most times[-1] - times[0].
C4_Durations ==
    /\ \A j \in 1..Len(container) : Duration(container[j]) >= 0
    /\ \A j \in 1..(Len(container) - 1) : Onset(container[j + 1]) > Onset(container[j])
    /\ pc = "returned" => SumDurations(container) <= Last(times) - times[1]

\* C4 amended: every duration is >= 0, the onsets are strictly increasing
\* and the emitted durations sum to at most times[-1] - times[0] plus half
\* a rounding unit (0.00005) per emitted record.
C4_DurationsWithinRounding ==
    /\ \A j \in 1..Len(container) : Duration(container[j]) >= 0
    /\ \A j \in 1..(Len(container) - 1) : Onset(container[j + 1]) > Onset(container[j])
    /\ pc = "returned" =>
          2 * SumDurations(container) <= 2 * (Last(times) - times[1]) + Len(container) * Grain

\* Two records returned whose rounded durations sum to more than the elapsed time.
C4_Witness ==
    /\ pc = "returned"
    /\ Len(container) >= 2
    /\ SumDurations(container) > Last(times) - times[1]

\* The hysteresis flag going into sample j, from the rate series alone.
FlagInto(j) == AbsLt(d_angles[IF j = 1 THEN 1 ELSE j - 1], THRESHOLD_SPEED)

\* What C5 says of a step at a non-final sample i: a record is appended if
\* and only if |rate[i]| > speedThreshold, times[i] - onset > minDuration and
\* the rate of the sample before (of sample 0 itself at sample 0) is below
\* the threshold; the flag and the previous angle are updated whether or not
\* a record was appended; nothing is appended at sample 0.
NonFinalStep ==
    (pc = "loop" /\ i < Len(times)) =>
        /\ (Len(container') = Len(container) + 1) <=>
               (/\ AbsGt(d_angles[i], THRESHOLD_SPEED)
                /\ times[i] - onset > THRESHOLD_DURATION
                /\ FlagInto(i))
        /\ Len(container') \in {Len(container), Len(container) + 1}
        /\ at_zero' = AbsLt(d_angles[i], THRESHOLD_SPEED)
        /\ prev_angle' = angles[i]
        /\ i = 1 => container' = container

\* Samples i-1 and i are both above the threshold.
BothAbove ==
    /\ i > 1
    /\ AbsGt(d_angles[i - 1], THRESHOLD_SPEED)
    /\ AbsGt(d_angles[i], THRESHOLD_SPEED)

\* Sample i-1 closed a record: the open event starts at its timestamp, which
\* no earlier sample carries.
PreviousEmitted ==
    /\ i > 2
    /\ Len(container) >= 1
    /\ onset = times[i - 1]
    /\ times[i - 2] < times[i - 1]

\* C5 as stated: the rule at non-final samples, and two consecutive
\* above-threshold samples never both append a record.
C5_HysteresisAnySample ==
    [][/\ NonFinalStep
       /\ (pc = "loop" /\ i <= Len(times) /\ BothAbove /\ PreviousEmitted) =>
              container' = container]_vars

\* C5 amended: the rule at non-final samples, and a non-final sample whose
\* predecessor is above the threshold as well appends nothing (the final
\* sample always appends, by the forced flush).
C5_Hysteresis ==
    [][/\ NonFinalStep
       /\ (pc = "loop" /\ i < Len(times) /\ BothAbove) => container' = container]_vars

\* A boundary has just fired at a non-final sample.
C5_Witness ==
    /\ pc = "loop"
    /\ 2 < i /\ i <= Len(times)
    /\ Len(container) = 1
    /\ onset = times[i - 1]
    /\ ~at_zero

\* C6: a series of length n >= 2 whose rate never exceeds the threshold
\* returns exactly one record: round(times[0]), round(times[-1] - times[0]),
\* angles[-2].
C6_Quiescent ==
    (pc = "returned" /\ Len(times) >= 2 /\ Quiescent) =>
        container = <<<<condition, round(times[1]), round(Last(times) - times[1]),
                        angles[Len(angles) - 1]>>>>

\* A quiescent series with finite rates, three distinct angles and an
\* off-grid first timestamp.
C6_Witness ==
    /\ pc = "returned"
    /\ Len(times) >= 3
    /\ Quiescent
    /\ \A j \in 1..Len(d_angles) : d_angles[j].kind = "num"
    /\ \E j \in 1..Len(d_angles) : d_angles[j].v # 0
    /\ times[1] % Grain # 0
    /\ Last(times) - times[1] > THRESHOLD_DURATION
    /\ angles[Len(angles) - 1] # Last(angles)
    /\ angles[Len(angles) - 1] # angles[1]

----------------------------------------------------------------------------
\* The series is malformed: no sample, or times and angles differ in length.
IsMalformed == Len(times) = 0 \/ Len(times) # Len(angles)

Closes == pc = "loop" /\ Len(container') = Len(container) + 1

\* C17: before rounding the events tile the series.  The first onset is
\* times[0]; a record closed at sample i is the rounding of the open onset
\* and of times[i] - onset, and the next onset is times[i], the previous
\* onset plus that duration; the last record closes at times[-1]; the angle
\* of a record is that of the sample before the one that closed it
\* (angles[0] at index 0).
C17_Tiling ==
    [][/\ pc = "segment" => onset' = times[1]
       /\ (pc = "loop" /\ container = <<>>) => onset = times[1]
       /\ Closes =>
              /\ Onset(Last(container')) = round(onset)
              /\ Duration(Last(container')) = round(times[i] - onset)
              /\ onset' = onset + (times[i] - onset)
              /\ onset' = times[i]
              /\ Angle(Last(container')) = angles[IF i = 1 THEN 1 ELSE i - 1]
       /\ (pc = "loop" /\ ~Closes) => onset' = onset
       /\ pc' = "returned" => Len(container) >= 1 /\ onset = Last(times)]_vars

\* Two records returned from a series that starts after time 0 and ends
\* with the second.
C17_Witness ==
    /\ pc = "returned"
    /\ Len(container) = 2
    /\ times[1] > 0
    /\ onset = Last(times)
    /\ Angle(container[1]) # Angle(container[2])

\* C18: every record closed before the last sample has an unrounded
\* duration above the minimum duration, so in the returned container only
\* the last record, closed by the forced flush, can have a duration of 0.5
\* or less, 0 included.
C18_MinDuration ==
    [][/\ (Closes /\ i < Len(times)) => times[i] - onset > THRESHOLD_DURATION
       /\ (Closes /\ i = Len(times)) => pc' = "loop" /\ i' > Len(times)
       /\ pc' = "returned" =>
              \A j \in 1..(Len(container) - 1) :
                  Duration(container[j]) >= THRESHOLD_DURATION]_vars

\* Two records returned, the first longer than the minimum duration and
\* the last, closed by the flush, shorter.
C18_Witness ==
    /\ pc = "returned"
    /\ Len(container) = 2
    /\ Duration(container[1]) > THRESHOLD_DURATION
    /\ Duration(container[2]) < THRESHOLD_DURATION

----------------------------------------------------------------------------
(* get_passive_data *)

\* The trial recordings on disk, as the readers deliver them (times, angles):
\* the two trials of the stitching example, 10.0 10.5 11.0 and 5.0 5.2 5.4,
\* a trial off the rounding grid and a trial of one sample.
TrialA == <<<<1000000, 1050000, 1100000>>, <<1, 2, 3>>>>
TrialB == <<<<500000, 520000, 540000>>, <<4, 5, 6>>>>
TrialC == <<<<25008, 75024>>, <<-30, 18>>>>
TrialD == <<<<75024>>, <<0>>>>
Trials == {TrialA, TrialB, TrialC, TrialD}

\* What a token that matches no recording resolves to.
NoFile == <<>>

\* A token of the index file with what it resolves to: kind "training" is
\* looked up among the raw track files (lines 93-103), kind "run" in
\* RawData.mat (lines 104-108).
Tokens == [kind : {"training", "run"}, file : Trials \cup {NoFile}]
IndexFiles == UNION {[1..m -> Tokens] : m \in 0..MaxTrials}

\* The start_time forgetting the first timestamp of the trial.
advance_by_last(st, mt) == st + mt[Len(mt)]

\* start_time after a trial (line 113).
advance(st, mt) == st + mt[Len(mt)] - mt[1]

\* The trial shifted by the start time, not re-baselined.
rebase_shifted(mt, st) == [j \in 1..Len(mt) |-> mt[j] + st]

\* The adjusted times of a trial (line 110).
rebase(mt, st) == [j \in 1..Len(mt) |-> mt[j] - mt[1] + st]

\* Lines 82-90.
PassiveEnter ==
    /\ pc = "get_passive_data"
    /\ times' = <<>>
    /\ angles' = <<>>
    /\ local_start_time' = start_time
    /\ tok' = 1
    /\ more_bound' = FALSE
    /\ more_times' = <<>>
    /\ more_angles' = <<>>
    /\ pc' = "stitch"
    /\ UNCHANGED <<err, condition, segvars, parameters, mainvars>>

\* Lines 110-113 with more_times, more_angles as given.
Extend(mt, ma) ==
    /\ times' = times \o rebase(mt, local_start_time)
    /\ angles' = angles \o ma
    /\ local_start_time' = advance(local_start_time, mt)
    /\ tok' = tok + 1
    /\ UNCHANGED <<pc, err>>

\* Lines 92-113: one iteration for a token whose recording is found.
PassiveTokenFound ==
    /\ pc = "stitch"
    /\ tok <= Len(parameters)
    /\ parameters[tok].file # NoFile
    /\ more_bound' = TRUE
    /\ more_times' = parameters[tok].file[1]
    /\ more_angles' = parameters[tok].file[2]
    /\ Extend(parameters[tok].file[1], parameters[tok].file[2])
    /\ UNCHANGED <<condition, segvars, parameters, mainvars>>

\* Lines 93-99, 110-113: a training token that no track file matches.  The
\* inner loop assigns nothing; line 110 uses more_times as the iteration
\* before left it, or fails when nothing was bound yet.
PassiveTokenNoTrack ==
    /\ pc = "stitch"
    /\ tok <= Len(parameters)
    /\ parameters[tok].file = NoFile
    /\ parameters[tok].kind = "training"
    /\ IF more_bound
       THEN Extend(more_times, more_angles)
       ELSE /\ pc' = "raised"
            /\ err' = "UnboundLocalError"
            /\ UNCHANGED <<times, angles, local_start_time, tok>>
    /\ UNCHANGED <<condition, segvars, parameters, more_bound, more_times, more_angles,
                   mainvars>>

\* Lines 104-106: a run token that RawData.mat does not hold.
PassiveTokenNoField ==
    /\ pc = "stitch"
    /\ tok <= Len(parameters)
    /\ parameters[tok].file = NoFile
    /\ parameters[tok].kind = "run"
    /\ pc' = "raised"
    /\ err' = "ValueError"
    /\ UNCHANGED <<condition, times, angles, segvars, stitchvars, mainvars>>

\* Line 114: (times, angles) go to the caller, which hands them to
\* data_to_event (line 170); the caller's start_time is not touched.
PassiveReturn ==
    /\ pc = "stitch"
    /\ tok > Len(parameters)
    /\ pc' = "data_to_event"
    /\ UNCHANGED <<err, condition, times, angles, segvars, stitchvars, mainvars>>

----------------------------------------------------------------------------
(* get_passive_data on every index file, from a start time *)

StartTimes == {0, 20 * TicksPerSecond + 25008}

InitStitch ==
    /\ pc = "get_passive_data"
    /\ err = "none"
    /\ condition = "PASSIVE"
    /\ times = <<>>
    /\ angles = <<>>
    /\ SegIdle
    /\ parameters \in IndexFiles
    /\ StitchIdle
    /\ start_time \in StartTimes
    /\ entry = 0
    /\ subject = "none"
    /\ run = 0
    /\ ordcond = <<>>
    /\ ci = 0
    /\ files = <<>>
    /\ group = <<>>

NextStitch ==
    \/ PassiveEnter
    \/ PassiveTokenFound
    \/ PassiveTokenNoTrack
    \/ PassiveTokenNoField
    \/ PassiveReturn

SpecStitch == InitStitch /\ [][NextStitch]_vars

----------------------------------------------------------------------------
(* Properties of get_passive_data, under SpecStitch *)

AllResolved == \A j \in 1..Len(parameters) : parameters[j].file # NoFile

Span(trial) == Last(trial[1]) - trial[1][1]

\* Sum of the spans of the first n trials of ps.
RECURSIVE SumSpans(_, _)
SumSpans(ps, n) == IF n = 0 THEN 0 ELSE SumSpans(ps, n - 1) + Span(ps[n].file)

\* Concatenation of the first n trials' times, each minus its own first
\* timestamp plus s plus the spans of the trials before it.
RECURSIVE StitchedTimes(_, _, _)
StitchedTimes(ps, s, n) ==
    IF n = 0 THEN <<>>
    ELSE StitchedTimes(ps, s, n - 1) \o
         [j \in 1..Len(ps[n].file[1]) |->
             ps[n].file[1][j] - ps[n].file[1][1] + s + SumSpans(ps, n - 1)]

RECURSIVE StitchedAngles(_, _)
StitchedAngles(ps, n) ==
    IF n = 0 THEN <<>> ELSE StitchedAngles(ps, n - 1) \o ps[n].file[2]

C8_Monotone ==
    [][/\ NonDecreasing(times')
       /\ (pc = "stitch" /\ Len(times) > 0 /\ Len(times') > Len(times)) =>
              times'[Len(times) + 1] = Last(times)]_vars

\* Two trials stitched from a non-zero start time, the second recorded
\* earlier on its own clock than the first.
C8_Witness ==
    /\ pc = "data_to_event"
    /\ parameters = <<[kind |-> "run", file |-> TrialA], [kind |-> "training", file |-> TrialB]>>
    /\ start_time > 0
    /\ times[3] = times[4]
    /\ times[1] = start_time
    /\ Last(times) > times[4]

\* C10: a token that resolves to no recording ends the stitching with an
\* error and appends no samples.
C10_Unresolved ==
    [][(pc = "stitch" /\ tok <= Len(parameters) /\ parameters[tok].file = NoFile) =>
          /\ pc' = "raised"
          /\ times' = times
          /\ angles' = angles]_vars

----------------------------------------------------------------------------
(* append_to_txt and the main script *)

\* os.listdir() of the folder that holds the script: name, first character,
\* and whether the last character is a digit.
Listing ==
    << [name |-> "Indices", first |-> "I", digit |-> FALSE],
       [name |-> "S01", first |-> "S", digit |-> TRUE],
       [name |-> "S09", first |-> "S", digit |-> TRUE] >>

\* Line 216.
is_subject(e) == e.first \in {"P", "S"} /\ e.digit /\ e.name # "S09"

runs == <<"mrt01", "mrt02">>

\* The buffer added to the start time after every condition (line 229).
BUFFER == 20 * TicksPerSecond

\* The Track arrays RawData.mat can hold for a LONG or SHORT condition.
ActiveRecordings ==
    { <<<<0, 50016, 75024>>, <<-30, 0, 18>>>>,
      <<<<25008, 50016>>, <<0, 18>>>>,
      <<<<0>>, <<0>>>> }

\* The index files a subject can have.
SubjectIndexFiles ==
    { <<[kind |-> "training", file |-> TrialA], [kind |-> "run", file |-> TrialB]>>,
      <<[kind |-> "run", file |-> TrialC]>>,
      <<[kind |-> "run", file |-> TrialC], [kind |-> "training", file |-> NoFile]>>,
      <<[kind |-> "training", file |-> NoFile]>>,
      <<[kind |-> "run", file |-> TrialC], [kind |-> "run", file |-> NoFile]>> }

\* The ranks index_pulses.mat can give the conditions of a run.
Ranks == [{"LONG", "SHORT", "PASSIVE"} -> 1..3]

\* A sort that puts the later of two conditions of equal rank first.
get_ordered_conditions_unstable(rank) ==
    LET before(a, b) == \/ rank[conditions[a]] < rank[conditions[b]]
                        \/ rank[conditions[a]] = rank[conditions[b]] /\ a > b
        pos(a) == 1 + Cardinality({b \in 1..Len(conditions) : before(b, a)})
    IN  [n \in 1..Len(conditions) |->
            conditions[CHOOSE a \in 1..Len(conditions) : pos(a) = n]]

\* sorted(conditions, key = rank): ascending, equal ranks in the order of
\* conditions (line 207).
get_ordered_conditions(rank) ==
    LET before(a, b) == \/ rank[conditions[a]] < rank[conditions[b]]
                        \/ rank[conditions[a]] = rank[conditions[b]] /\ a < b
        pos(a) == 1 + Cardinality({b \in 1..Len(conditions) : before(b, a)})
    IN  [n \in 1..Len(conditions) |->
            conditions[CHOOSE a \in 1..Len(conditions) : pos(a) = n]]

\* The rank maps get_ordered_conditions is applied to on its own.
Groups == [{"LONG", "SHORT", "PASSIVE"} -> 1..MaxRank]

\* Line 207, with the ranks of the run loaded (lines 202-205).
OrderConditions ==
    /\ pc = "get_ordered_conditions"
    /\ ordcond' = get_ordered_conditions(group)
    /\ pc' = "ordered"
    /\ UNCHANGED <<err, condition, times, angles, segvars, stitchvars,
                   start_time, entry, subject, run, ci, files, group>>

InitOrder ==
    /\ pc = "get_ordered_conditions"
    /\ err = "none"
    /\ condition = "none"
    /\ times = <<>>
    /\ angles = <<>>
    /\ SegIdle
    /\ parameters = <<>>
    /\ StitchIdle
    /\ start_time = 0
    /\ entry = 0
    /\ subject = "none"
    /\ run = 0
    /\ ordcond = <<>>
    /\ ci = 0
    /\ files = <<>>
    /\ group \in Groups

NextOrder == OrderConditions

SpecOrder == InitOrder /\ [][NextOrder]_vars

\* The recording moved so that its first timestamp is st.
shift_rebased(ts, st) == [j \in 1..Len(ts) |-> ts[j] - ts[1] + st]

\* np.array(times) + start_time (line 72).
shift(ts, st) == [j \in 1..Len(ts) |-> ts[j] + st]

\* The output file of a subject and run (line 220).
outputfile == <<subject, runs[run]>>

\* The output files of the listing's subjects.
OutputFiles ==
    {<<Listing[e].name, runs[r]>> : e \in {d \in DOMAIN Listing : is_subject(Listing[d])},
                                    r \in DOMAIN runs}

\* The decimal digits of n ticks below one second, most significant first.
Digits(n) == [d \in 1..(DECIMALS + 1) |-> (n \div (10 ^ (DECIMALS + 1 - d))) % 10]

\* Trailing zeros dropped, one digit kept.
RECURSIVE Strip(_)
Strip(ds) ==
    IF Len(ds) > 1 /\ ds[Len(ds)] = 0 THEN Strip(SubSeq(ds, 1, Len(ds) - 1)) ELSE ds

\* str(x) of a float of x ticks: sign, integer part and the shortest
\* fraction that reads back as x (2.5 is written "2.5", 0 is written "0.0").
str_float(x) ==
    [neg |-> x < 0,
     int |-> Abs(x) \div TicksPerSecond,
     frac |-> Strip(Digits(Abs(x) % TicksPerSecond))]

\* The number a written field reads back as, in ticks.
RECURSIVE FracTicks(_, _)
FracTicks(ds, d) ==
    IF ds = <<>> THEN 0
    ELSE ds[1] * 10 ^ (DECIMALS + 1 - d) + FracTicks(Tail(ds), d + 1)

parse(t) ==
    (IF t.neg THEN -1 ELSE 1) * (t.int * TicksPerSecond + FracTicks(t.frac, 1))

\* A line that writes the duration of the event as its onset too.
line_onset_twice(e) ==
    <<e[1], str_float(e[2]), str_float(e[2]), str_float(e[4] * TicksPerSecond)>>

\* ';'.join(map(str, e)) (line 174): the four fields of a line.
line_of(e) == <<e[1], str_float(e[2]), str_float(e[3]), str_float(e[4] * TicksPerSecond)>>

\* All the events but the last.
lines_but_last(events) == [j \in 1..(Len(events) - 1) |-> line_of(events[j])]

\* Lines 173-175: one line per event, in the order of events.
lines_of(events) == [j \in 1..Len(events) |-> line_of(events[j])]

\* A file opened without truncation keeps what it held.
opened(fs, f) == [g \in DOMAIN fs \cup {f} |-> IF g \in DOMAIN fs THEN fs[g] ELSE <<>>]

\* open(outputfile, 'w') (line 221): the file exists and is empty.
truncated(fs, f) == [g \in DOMAIN fs \cup {f} |-> IF g = f THEN <<>> ELSE fs[g]]

\* What an output file holds from an earlier execution: a line this
\* execution cannot write.
OldLines == <<line_of(<<"OLD", 0, 0, 0>>)>>

\* The onset of the last event alone.
last_onset(events) == events[Len(events)][2]

\* The value append_to_txt returns (line 176).
last_end(events) == events[Len(events)][2] + events[Len(events)][3]

\* Lines 215-217: the next entry of the listing.
MainSubject ==
    /\ pc = "main"
    /\ entry <= Len(Listing)
    /\ IF is_subject(Listing[entry])
       THEN /\ subject' = Listing[entry].name
            /\ run' = 1
            /\ pc' = "run"
            /\ UNCHANGED entry
       ELSE /\ entry' = entry + 1
            /\ UNCHANGED <<subject, run, pc>>
    /\ UNCHANGED <<err, condition, times, angles, segvars, stitchvars,
                   start_time, ordcond, ci, files, group>>

\* Line 215: the listing is exhausted.
MainDone ==
    /\ pc = "main"
    /\ entry > Len(Listing)
    /\ pc' = "done"
    /\ UNCHANGED <<err, condition, times, angles, segvars, stitchvars, mainvars>>

\* Lines 218-222: a run starts; its output file is recreated empty and the
\* conditions are ordered.  The ranks read from index_pulses.mat are local
\* to get_ordered_conditions and are gone when it has returned.
RunStart ==
    /\ pc = "run"
    /\ run <= Len(runs)
    /\ start_time' = 0
    /\ files' = truncated(files, outputfile)
    /\ \E rank \in Ranks : ordcond' = get_ordered_conditions(rank)
    /\ ci' = 1
    /\ pc' = "condition"
    /\ UNCHANGED <<err, condition, times, angles, segvars, stitchvars, entry, subject, run,
                   group>>

\* Line 218: the runs of the subject are exhausted.
RunsDone ==
    /\ pc = "run"
    /\ run > Len(runs)
    /\ entry' = entry + 1
    /\ pc' = "main"
    /\ UNCHANGED <<err, condition, times, angles, segvars, stitchvars,
                   start_time, subject, run, ordcond, ci, files, group>>

\* Lines 223-229, 169-170, 58-72: append_to_txt is called for a LONG or
\* SHORT condition and get_active_data returns the recording shifted by
\* start_time.
CallActive ==
    /\ pc = "condition"
    /\ ci <= Len(ordcond)
    /\ ordcond[ci] # "PASSIVE"
    /\ condition' = ordcond[ci]
    /\ \E rec \in ActiveRecordings :
          /\ times' = shift(rec[1], start_time)
          /\ angles' = rec[2]
    /\ pc' = "data_to_event"
    /\ UNCHANGED <<err, segvars, stitchvars, mainvars>>

\* Lines 223-229, 169-170: append_to_txt is called for the PASSIVE condition.
CallPassive ==
    /\ pc = "condition"
    /\ ci <= Len(ordcond)
    /\ ordcond[ci] = "PASSIVE"
    /\ condition' = ordcond[ci]
    /\ pc' = "get_passive_data"
    /\ UNCHANGED <<err, times, angles, segvars, stitchvars, mainvars>>

\* Lines 172-176 and 225-229: the events are appended to the output file,
\* append_to_txt returns the end of the last event and the main script adds
\* the buffer.
Write ==
    /\ pc = "returned"
    /\ files' = [files EXCEPT ![outputfile] = @ \o lines_of(container)]
    /\ start_time' = last_end(container) + BUFFER
    /\ ci' = ci + 1
    /\ pc' = "condition"
    /\ UNCHANGED <<err, condition, times, angles, segvars, stitchvars,
                   entry, subject, run, ordcond, group>>

\* Line 223: the conditions of the run are exhausted.
ConditionsDone ==
    /\ pc = "condition"
    /\ ci > Len(ordcond)
    /\ run' = run + 1
    /\ pc' = "run"
    /\ UNCHANGED <<err, condition, times, angles, segvars, stitchvars,
                   start_time, entry, subject, ordcond, ci, files, group>>

----------------------------------------------------------------------------
(* The whole script *)

Init ==
    /\ pc = "main"
    /\ err = "none"
    /\ condition = "none"
    /\ times = <<>>
    /\ angles = <<>>
    /\ SegIdle
    /\ parameters \in SubjectIndexFiles
    /\ StitchIdle
    /\ start_time = 0
    /\ entry = 1
    /\ subject = "none"
    /\ run = 0
    /\ ordcond = <<>>
    /\ ci = 0
    /\ files \in {<<>>, [f \in OutputFiles |-> OldLines]}
    /\ group = <<>>

Next ==
    \/ MainSubject
    \/ MainDone
    \/ RunStart
    \/ RunsDone
    \/ CallActive
    \/ CallPassive
    \/ ConditionsDone
    \/ PassiveEnter
    \/ PassiveTokenFound
    \/ PassiveTokenNoTrack
    \/ PassiveTokenNoField
    \/ PassiveReturn
    \/ Preprocess
    \/ SegInit
    \/ SegStep
    \/ SegReturn
    \/ Write

Spec == Init /\ [][Next]_vars

----------------------------------------------------------------------------
(* Properties of the main script, under Spec *)

\* The step in which append_to_txt returns and the main script sets the
\* start time of the next condition.
Handover == pc = "returned" /\ pc' = "condition"

\* A trial is appended to a timeline that already holds one.
Junction == pc = "stitch" /\ Len(times) > 0 /\ Len(times') > Len(times)

Stopped == pc \in {"done", "raised"}

\* The output file f has been created anew by this execution.
Recreated(f) == f \in DOMAIN files /\ \A n \in DOMAIN files[f] : files[f][n][1] # "OLD"

\* C12: a subject or run that fails does not halt the batch: when the script
\* has stopped, every run of every subject of the listing has been processed
\* and has its output file written by this execution.
C12_BatchContinues == Stopped => \A f \in OutputFiles : Recreated(f)

\* The lines of file f that carry the label c.
LinesOf(f, c) == SelectSeq(files[f], LAMBDA l : l[1] = c)

\* C13: append_to_txt appends all the records of the condition's
\* segmentation or none: when it returns, the file is what it was followed
\* by one line per record of the container, in order; no other step of a
\* condition changes a file; and when loading or segmentation raises, the
\* file holds no line of that condition.
C13_AllOrNone ==
    [][/\ Handover =>
              /\ Len(files'[outputfile]) = Len(files[outputfile]) + Len(container)
              /\ \A n \in 1..Len(files[outputfile]) :
                     files'[outputfile][n] = files[outputfile][n]
              /\ \A j \in 1..Len(container) :
                     files'[outputfile][Len(files[outputfile]) + j] = line_of(container[j])
              /\ Len(LinesOf(outputfile, condition)) = 0
       /\ (~Handover /\ pc # "run") => files' = files
       /\ pc' = "raised" => Len(LinesOf(outputfile, condition')) = 0]_vars

\* A condition has failed after an earlier condition of the run was written:
\* the file holds the earlier lines and none of the failed condition.
C13_Witness ==
    /\ pc = "raised"
    /\ ci >= 2
    /\ Len(files[outputfile]) >= 2
    /\ Len(LinesOf(outputfile, condition)) = 0

\* The step in which a run opens its output file.
Truncation == pc = "run" /\ pc' = "condition"

\* The labels of the lines follow the order of ordcond.
InOrder(lines) ==
    /\ \A n \in DOMAIN lines : \E c \in DOMAIN ordcond : ordcond[c] = lines[n][1]
    /\ \A a, b \in DOMAIN lines : \A c, d \in DOMAIN ordcond :
           (a < b /\ ordcond[c] = lines[a][1] /\ ordcond[d] = lines[b][1]) => c <= d

\* s is an initial part of t.
IsPrefix(s, t) == Len(s) <= Len(t) /\ \A n \in DOMAIN s : t[n] = s[n]

\* C14: the output file of a subject and run is truncated exactly once, when
\* the run starts and before any of its conditions is appended: the
\* truncation leaves it empty, it had not been created by this execution
\* before, and no other file changes; every other step leaves every file as
\* it was or longer by lines at its end; after each append the lines of the
\* file are those of the conditions up to the appended one, in the order the
\* resolver returned.
C14_TruncateThenAppend ==
    [][/\ Truncation =>
              /\ ~Recreated(outputfile)
              /\ files'[outputfile] = <<>>
              /\ \A f \in DOMAIN files \ {outputfile} : files'[f] = files[f]
       /\ ~Truncation =>
              \A f \in DOMAIN files : f \in DOMAIN files' /\ IsPrefix(files[f], files'[f])
       /\ Handover =>
              /\ InOrder(files'[outputfile])
              /\ \A n \in DOMAIN files'[outputfile] :
                     \E c \in 1..ci : ordcond[c] = files'[outputfile][n][1]
              /\ \A f \in DOMAIN files \ {outputfile} : files'[f] = files[f]]_vars

\* The second run has written its three conditions over an old file, and the
\* file of the first run still holds its lines.
C14_Witness ==
    /\ pc = "condition"
    /\ run = 2
    /\ ci > Len(ordcond)
    /\ Len(files[outputfile]) >= 3
    /\ files[outputfile][1][1] # files[outputfile][Len(files[outputfile])][1]
    /\ Len(files[<<subject, runs[1]>>]) >= 3

\* The number of decimal places a written number shows.
Decimals(t) == Len(t.frac)

\* The line appended for the j-th record of the container.
Appended(j) == files'[outputfile][Len(files[outputfile]) + j]

\* The line l has four fields that read back as the record e.
WrittenAs(l, e) ==
    /\ Len(l) = 4
    /\ l[1] = e[1]
    /\ parse(l[2]) = e[2]
    /\ parse(l[3]) = e[3]
    /\ parse(l[4]) = e[4] * TicksPerSecond

\* A record is emitted with its onset and its duration rounded by the same
\* rule, and rounding either again leaves it unchanged.
EmitRounded ==
    (pc = "loop" /\ Len(container') = Len(container) + 1) =>
        /\ Onset(Last(container')) = round(onset)
        /\ Duration(Last(container')) = round(times[i] - onset)
        /\ round(Onset(Last(container'))) = Onset(Last(container'))
        /\ round(Duration(Last(container'))) = Duration(Last(container'))

FirstEmitted == pc \in {"loop", "returned"} /\ Len(container) >= 1

\* The end of the last line of the output file: its onset plus its duration.
WrittenEnd == parse(Last(files[outputfile])[2]) + parse(Last(files[outputfile])[3])

\* The first record of a LONG or SHORT condition starts at off: the series
\* is one of the recordings, every timestamp moved by start_time.
ActiveFirstOnset(off(_)) ==
    \E rec \in ActiveRecordings :
        /\ angles = rec[2]
        /\ times = [j \in 1..Len(rec[1]) |-> rec[1][j] + start_time]
        /\ Onset(container[1]) = off(start_time + rec[1][1])

\* The first onset of a PASSIVE condition is its start time, and each
\* condition's first onset is at least the end of the last line written
\* before it plus the buffer of 20.
PassiveFirstOnset ==
    /\ condition = "PASSIVE" => Onset(container[1]) = start_time
    /\ files[outputfile] # <<>> => Onset(container[1]) >= WrittenEnd + BUFFER

\* No rounding.
Exactly(x) == x

\* C19 as stated: the first onset of a PASSIVE condition is the start time
\* passed in; that of a LONG or SHORT condition is the start time plus the
\* first timestamp of the recording; each condition's first onset is at
\* least the previous condition's last onset + duration + 20.
C19_FirstOnset ==
    FirstEmitted =>
        /\ PassiveFirstOnset
        /\ condition # "PASSIVE" => ActiveFirstOnset(Exactly)

\* C19 amended: the first onset of a PASSIVE condition is the start time
\* passed in; that of a LONG or SHORT condition is the start time plus the
\* first timestamp of the recording, rounded to 4 decimals; each condition's
\* first onset is at least the previous condition's last onset + duration
\* + 20.
C19_FirstOnsetRounded ==
    FirstEmitted =>
        /\ PassiveFirstOnset
        /\ condition # "PASSIVE" => ActiveFirstOnset(round)

\* A LONG or SHORT condition that follows another condition in the file has
\* emitted a first onset later than its start time.
C19_Witness ==
    /\ pc = "returned"
    /\ ci >= 2
    /\ condition # "PASSIVE"
    /\ files[outputfile] # <<>>
    /\ Onset(container[1]) > start_time
    /\ Onset(container[1]) > WrittenEnd + BUFFER

----------------------------------------------------------------------------
(* Properties of get_ordered_conditions, under SpecOrder *)

\* The place of a condition in the fixed enumeration LONG, SHORT, PASSIVE.
Place(c) == CHOOSE n \in DOMAIN conditions : conditions[n] = c

\* C15: get_ordered_conditions returns a permutation of the three
\* conditions, ascending by rank, conditions of equal rank in the order
\* LONG, SHORT, PASSIVE; the ranks LONG 2, SHORT 1, PASSIVE 3 give
\* SHORT, LONG, PASSIVE.
C15_Ordered ==
    pc = "ordered" =>
        /\ Len(ordcond) = Len(conditions)
        /\ \A c \in DOMAIN conditions : \E n \in DOMAIN ordcond : ordcond[n] = conditions[c]
        /\ \A a, b \in DOMAIN ordcond :
               a < b => \/ group[ordcond[a]] < group[ordcond[b]]
                        \/ /\ group[ordcond[a]] = group[ordcond[b]]
                           /\ Place(ordcond[a]) < Place(ordcond[b])
        /\ (group["LONG"] = 2 /\ group["SHORT"] = 1 /\ group["PASSIVE"] = 3) =>
               ordcond = <<"SHORT", "LONG", "PASSIVE">>

\* SHORT and PASSIVE share the lowest rank and come out in that order,
\* before LONG.
C15_Witness ==
    /\ pc = "ordered"
    /\ group["SHORT"] = group["PASSIVE"]
    /\ group["LONG"] > group["SHORT"]
    /\ ordcond = <<"SHORT", "PASSIVE", "LONG">>

====
